---- MODULE Spec2Model ----
(***************************************************************************)
(* State-machine model of src/real_hardware_demo.py: the class             *)
(* RealChipWhispererDemo (connect, test_target_communication,              *)
(* capture_real_trace, capture_multiple_traces, analyze_traces,            *)
(* generate_plot, run_demo, disconnect) and the entry point main().        *)
(*                                                                         *)
(* The vendor SDK, NumPy and Matplotlib are the environment: every call    *)
(* into them either returns or raises, chosen with \E in the action that   *)
(* makes the call.  Where NumPy's behaviour is a function of its argument  *)
(* (a reduction of a zero-size array raises ValueError, a ragged list of   *)
(* traces cannot be reduced along axis 0) the model computes it.           *)
(*                                                                         *)
(* Three specifications share the actions:                                 *)
(*   Spec        the program: main() running run_demo() then disconnect(); *)
(*   SpecAPI     one demo object whose methods are called in any order;    *)
(*   SpecAnalyze analyze_traces applied to every bounded TraceSet.         *)
(***************************************************************************)
EXTENDS Integers, Sequences, FiniteSets, TLC

VARIABLES
    pc,          \* main(): the step of run_demo about to run, "finally", "done"; "api" under SpecAPI
    scope,       \* self.scope: "None" or the handle "Scope"
    target,      \* self.target: "None" or the handle "Target"
    connected,   \* self.connected
    traces,      \* self.traces: the TraceSet, a sequence of waveforms
    image,       \* TRUE once plt.savefig has written the image file
    op,          \* the method whose code ran in the last step
    ret,         \* what that method returned: "True", "False", "None", "trace", "analysis"; "raised"; "running"
    calls,       \* the external-library calls made by the last step, in order
    sent,        \* the simpleserial_write calls of the last step: <<[cmd, data]>>
    resp,        \* what target.read() gave the last probe: "unread", "none", "empty", "data"
    cap,         \* the last capture_real_trace call: [failed, ret, wave]
    inLoop,      \* TRUE while capture_multiple_traces is in its for loop
    idx,         \* the loop variable i of capture_multiple_traces
    num,         \* the argument num_traces of the running capture_multiple_traces
    attempts,    \* capture_real_trace calls made by the running/last capture_multiple_traces
    succ,        \* the waveforms those calls returned (not None), in order
    steps,       \* run_demo: the steps started so far, in order
    reports,     \* run_demo: what each finished step reported (TRUE = success)
    runResult,   \* run_demo: "running", "True", "False", "raised"
    disconnects, \* main(): the number of disconnect() calls it has made
    disCalls,    \* main(): the dis() calls made so far on each handle: [scope, target]
    analysis     \* the AnalysisResult the last step returned (NoAnalysis: none)

vars == <<pc, scope, target, connected, traces, image, op, ret, calls, sent,
          resp, cap, inLoop, idx, num, attempts, succ, steps, reports,
          runResult, disconnects, disCalls, analysis>>

(***************************************************************************)
(* Bounds of the model and constants of the program.                       *)
(***************************************************************************)
MaxNum == 2          \* SpecAPI: capture_multiple_traces(n) for n in 0..MaxNum
MaxTraces == 2       \* SpecAnalyze: TraceSets of up to this many traces

NumTraces == 5       \* run_demo: self.capture_multiple_traces(5)
PayloadLen == 16     \* [0xAA] * 16 and [i % 256] * 16
ProbeByte == 170     \* 0xAA
ByteModulus == 256   \* i % 256
ThresholdNum == 3    \* mean_variance * 1.5, as the fraction 3/2
ThresholdDen == 2

\* Sample values and trace lengths of the TraceSets SpecAnalyze analyses.
Samples == {0, 1, 2}

TraceLengths == {0, 1, 2, 3}

\* The bytes capture_real_trace is given when it is called directly.
DirectInputs == {0, 1}

\* The waveforms scope.get_last_trace() may hand back: a zero-size one, two
\* of equal length and a longer one.
Waveforms == {<<>>, <<0>>, <<2>>, <<0, 1>>}

RunSteps == <<"connect", "probe", "capture", "analyze", "plot">>

(***************************************************************************)
(* Helpers.                                                                *)
(***************************************************************************)
IsPrefix(s, t) == Len(s) <= Len(t) /\ SubSeq(t, 1, Len(s)) = s

RECURSIVE SumTo(_, _)
\* f[1] + ... + f[n]
SumTo(f, n) == IF n = 0 THEN 0 ELSE f[n] + SumTo(f, n - 1)

\* bytearray([0xAA] * 16)
ProbePayload == [k \in 1..PayloadLen |-> ProbeByte]

\* input_data = [i % 256] * 16
InputData(i) == [k \in 1..PayloadLen |-> i % ByteModulus]

\* A guard that never sees an empty list.
NeverEmpty(ts) == FALSE

\* `not self.traces`
IsEmptyTraceSet(ts) == Len(ts) = 0

\* `if response is not None:` -- an empty response counts as an answer.
TruthyNotNone(r) == r \in {"empty", "data"}

\* `if response:` on what target.read() returned
Truthy(r) == r = "data"

\* self.traces.insert(0, trace)
PrependTrace(ts, w) == <<w>> \o ts

\* self.traces.append(trace)
AppendTrace(ts, w) == Append(ts, w)

\* np.array(self.traces) is a 2-D array only if all traces have one length.
Rectangular(ts) == \A a, b \in 1..Len(ts) : Len(ts[a]) = Len(ts[b])

(***************************************************************************)
(* analyze_traces: the statistics, in exact arithmetic.  For n traces the  *)
(* model keeps n * mean as the column sum and n^2 * variance as VarNum,    *)
(* so that every comparison of the code is a comparison of integers.       *)
(***************************************************************************)
\* sum over the traces of sample j (1-based): n * mean_trace[j-1]
ColSum(ts, j) == SumTo([a \in 1..Len(ts) |-> ts[a][j]], Len(ts))

ColSumSq(ts, j) == SumTo([a \in 1..Len(ts) |-> ts[a][j] * ts[a][j]], Len(ts))

\* n^2 * np.var(trace_array, axis=0)[j-1]
VarNum(ts, j) == Len(ts) * ColSumSq(ts, j) - ColSum(ts, j) * ColSum(ts, j)

\* n^2 * len * np.mean(variance)
TotalVarNum(ts) == SumTo([j \in 1..Len(ts[1]) |-> VarNum(ts, j)], Len(ts[1]))

\* variance > mean_variance * 3
HighVarianceTriple(v, total, len) == v * len > total * ThresholdNum

\* variance > mean_variance * 1.5, for v = n^2 * variance[j] and
\* total = n^2 * len * mean_variance
HighVariance(v, total, len) == v * len * ThresholdDen > total * ThresholdNum

\* np.where(variance > mean_variance * 1.5)[0]: 0-based sample indices
InterestingPoints(ts) ==
    {j - 1 : j \in {k \in 1..Len(ts[1]) :
                      HighVariance(VarNum(ts, k), TotalVarNum(ts), Len(ts[1]))}}

\* A trace whose own samples are all equal has zero variance, and
\* np.corrcoef of it with anything is NaN (so is any pair of 1-sample traces).
ConstantTrace(w) == \A a, b \in 1..Len(w) : w[a] = w[b]

\* avg_correlation: 0 for a single trace, else the mean of the pairwise
\* coefficients, which is NaN as soon as one of them is.
AvgCorrelation(ts) ==
    IF Len(ts) <= 1 THEN "zero"
    ELSE IF \E a \in 1..Len(ts) : ConstantTrace(ts[a]) THEN "nan"
    ELSE "finite"

Maximum(S) == CHOOSE x \in S : \A y \in S : y <= x

Minimum(S) == CHOOSE x \in S : \A y \in S : x <= y

NoAnalysis ==
    [num_traces |-> 0, trace_length |-> 0, sums |-> <<>>, varnum |-> <<>>,
     max_sum |-> 0, min_sum |-> 0, points |-> {}, interesting_points |-> 0,
     avg_correlation |-> "zero"]

\* The dict analyze_traces returns, for a rectangular TraceSet of n >= 1
\* traces of len >= 1 samples.
AnalysisResult(ts) ==
    LET len == Len(ts[1])
        sums == [j \in 1..len |-> ColSum(ts, j)]
    IN [num_traces |-> Len(ts),
        trace_length |-> len,
        sums |-> sums,
        varnum |-> [j \in 1..len |-> VarNum(ts, j)],
        max_sum |-> Maximum({sums[j] : j \in 1..len}),
        min_sum |-> Minimum({sums[j] : j \in 1..len}),
        points |-> InterestingPoints(ts),
        interesting_points |-> Cardinality(InterestingPoints(ts)),
        avg_correlation |-> AvgCorrelation(ts)]

\* The NumPy calls of analyze_traces up to the first that raises.
\* A ragged list makes np.array or the first axis-0 reduction raise; with
\* zero-size traces mean_trace is empty and np.max(mean_trace) raises.
AnalyzeCalls(ts) ==
    IF Len(ts) = 0 \/ ~Rectangular(ts) THEN <<"np.array", "np.mean">>
    ELSE IF Len(ts[1]) = 0 THEN <<"np.array", "np.mean", "np.std", "np.max">>
    ELSE <<"np.array", "np.mean", "np.std", "np.max", "np.min", "np.var",
           "np.mean", "np.where">>

AnalyzeRaises(ts) == Len(ts) = 0 \/ ~Rectangular(ts) \/ Len(ts[1]) = 0

(***************************************************************************)
(* run_demo and main(): the sequencing of the steps.                       *)
(***************************************************************************)
NextStepOf(step) ==
    CASE step = "connect" -> "probe"
      [] step = "probe" -> "capture"
      [] step = "capture" -> "analyze"
      [] step = "analyze" -> "plot"

\* main() without the finally: an exception skips disconnect().
AfterRunDemoNoFinally(r) == IF r = "raised" THEN "done" ELSE "finally"

\* main(): try: run_demo() finally: disconnect() -- where control goes once
\* run_demo has ended with result r ("True", "False" or "raised").
AfterRunDemo(r) == "finally"

\* run_demo: what it returns once `step` has reported okv ("running": it goes on)
RunDemoResult(step, okv) ==
    IF ~okv THEN "False" ELSE IF step = "plot" THEN "True" ELSE "running"

\* run_demo without the early `return False`.
RunDemoNextNoReturn(step, okv) ==
    IF step # "plot" THEN NextStepOf(step)
    ELSE AfterRunDemo(RunDemoResult(step, okv))

\* run_demo: `if not self.step(): return False`, else on to the next step
RunDemoNext(step, okv) ==
    IF okv /\ step # "plot" THEN NextStepOf(step)
    ELSE AfterRunDemo(RunDemoResult(step, okv))

\* A method that ran in one step and returned okv.
Atomic(step, okv) ==
    IF pc = "api" THEN UNCHANGED <<pc, steps, reports, runResult>>
    ELSE /\ pc' = RunDemoNext(step, okv)
         /\ steps' = Append(steps, step)
         /\ reports' = Append(reports, okv)
         /\ runResult' = RunDemoResult(step, okv)

\* A method that ran in one step and raised: nothing in run_demo catches it.
AtomicRaise(step) ==
    IF pc = "api" THEN UNCHANGED <<pc, steps, reports, runResult>>
    ELSE /\ pc' = AfterRunDemo("raised")
         /\ steps' = Append(steps, step)
         /\ reports' = reports
         /\ runResult' = "raised"

NoCapture == [failed |-> "uncalled", ret |-> "None", wave |-> <<>>]

\* What a step leaves for inspection: the method, its result and the
\* external calls it made.
Log(o, r, c, s, rs, cp) ==
    /\ op' = o
    /\ ret' = r
    /\ calls' = c
    /\ sent' = s
    /\ resp' = rs
    /\ cap' = cp

\* The locals of capture_multiple_traces are gone once another method runs.
NoLoop ==
    /\ inLoop' = FALSE
    /\ idx' = 0
    /\ num' = 0
    /\ attempts' = 0
    /\ succ' = <<>>

(***************************************************************************)
(* connect                                                                 *)
(***************************************************************************)
\* Which SDK call of connect raises: cw.scope(), cw.target(...),
\* scope.default_setup(), or none of them.
ConnectOutcomes == {"ok", "scope", "target", "setup"}

ConnectCalls(f) ==
    CASE f = "scope" -> <<"cw.scope">>
      [] f = "target" -> <<"cw.scope", "cw.target">>
      [] OTHER -> <<"cw.scope", "cw.target", "scope.default_setup">>

Connect ==
    /\ pc \in {"api", "connect"}
    /\ ~inLoop
    /\ \E f \in ConnectOutcomes :
         LET gotScope == f # "scope"
             gotTarget == f \in {"ok", "setup"}
             okv == f = "ok"
         IN /\ scope' = IF gotScope THEN "Scope" ELSE scope
            /\ target' = IF gotTarget THEN "Target" ELSE target
            /\ connected' = IF okv THEN TRUE ELSE connected
            /\ Log("connect", IF okv THEN "True" ELSE "False", ConnectCalls(f),
                   <<>>, "unread", NoCapture)
            /\ Atomic("connect", okv)
    /\ NoLoop
    /\ analysis' = NoAnalysis
    /\ UNCHANGED <<traces, image, disconnects, disCalls>>

(***************************************************************************)
(* test_target_communication                                               *)
(***************************************************************************)
\* flush, write or read raises, or read returns None, b'' or data.
ProbeOutcomes == {"flush", "write", "read", "none", "empty", "data"}

ProbeOrder == <<"target.flush", "target.simpleserial_write", "time.sleep",
                "target.read">>

\* How many of the calls of ProbeOrder are made.  With self.target None the
\* attribute lookup raises before any call.
ProbeStop(tg, o) ==
    IF tg = "None" THEN 0
    ELSE CASE o = "flush" -> 1
           [] o = "write" -> 2
           [] OTHER -> 4

\* What read() returned to the probe ("unread": read did not return).
ProbeResponse(tg, o) ==
    IF tg # "None" /\ o \in {"none", "empty", "data"} THEN o ELSE "unread"

TestTargetCommunication ==
    /\ pc \in {"api", "probe"}
    /\ ~inLoop
    /\ \E o \in ProbeOutcomes :
         LET stop == ProbeStop(target, o)
             r == ProbeResponse(target, o)
             okv == Truthy(r)
         IN /\ Log("test_target_communication",
                   IF okv THEN "True" ELSE "False",
                   SubSeq(ProbeOrder, 1, stop),
                   IF stop >= 2 THEN <<[cmd |-> "p", data |-> ProbePayload]>>
                                ELSE <<>>,
                   r, NoCapture)
            /\ Atomic("probe", okv)
    /\ NoLoop
    /\ analysis' = NoAnalysis
    /\ UNCHANGED <<scope, target, connected, traces, image, disconnects,
                   disCalls>>

(***************************************************************************)
(* capture_real_trace                                                      *)
(***************************************************************************)
\* Which device operation raises (fail), or whether get_last_trace returned
\* None (null), or the waveform it returned (w).
CaptureOutcomes ==
    {[fail |-> f, null |-> FALSE, w |-> <<>>] :
        f \in {"scope.arm", "target.simpleserial_write", "scope.capture",
               "scope.get_last_trace"}}
    \cup {[fail |-> "none", null |-> TRUE, w |-> <<>>]}
    \cup {[fail |-> "none", null |-> FALSE, w |-> x] : x \in Waveforms}

CaptureOrder == <<"scope.arm", "target.simpleserial_write", "scope.capture",
                  "scope.get_last_trace">>

\* What raised in capture_real_trace: a device operation, the attribute
\* lookup on a None handle ("attr"), or nothing ("none").
CaptureFailed(sc, tg, o) ==
    IF sc = "None" THEN "attr"
    ELSE IF o.fail = "scope.arm" THEN "scope.arm"
    ELSE IF tg = "None" THEN "attr"
    ELSE o.fail

\* Each device operation in a try block of its own: a failure stops nothing.
CaptureStopKeepsGoing(sc, tg, o) == IF sc = "None" THEN 0 ELSE Len(CaptureOrder)

\* How many of the operations of CaptureOrder are invoked.
CaptureStop(sc, tg, o) ==
    IF sc = "None" THEN 0
    ELSE IF o.fail = "scope.arm" \/ tg = "None" THEN 1
    ELSE CASE o.fail = "target.simpleserial_write" -> 2
           [] o.fail = "scope.capture" -> 3
           [] OTHER -> 4

\* capture_real_trace(data) on handles sc, tg when the device does o.
CaptureRealTraceResult(sc, tg, data, o) ==
    LET failed == CaptureFailed(sc, tg, o)
        stop == CaptureStop(sc, tg, o)
        gotTrace == failed = "none" /\ ~o.null
    IN [calls |-> SubSeq(CaptureOrder, 1, stop),
        sent |-> IF stop >= 2 THEN <<[cmd |-> "p", data |-> data]>> ELSE <<>>,
        cap |-> [failed |-> failed,
                 ret |-> IF gotTrace THEN "trace" ELSE "None",
                 wave |-> IF gotTrace THEN o.w ELSE <<>>]]

\* A direct call of capture_real_trace(input_data).
CaptureRealTrace ==
    /\ pc = "api"
    /\ ~inLoop
    /\ \E o \in CaptureOutcomes, i \in DirectInputs :
         LET r == CaptureRealTraceResult(scope, target, InputData(i), o)
         IN Log("capture_real_trace", r.cap.ret, r.calls, r.sent, "unread",
                r.cap)
    /\ NoLoop
    /\ analysis' = NoAnalysis
    /\ UNCHANGED <<pc, scope, target, connected, traces, image, steps, reports,
                   runResult, disconnects, disCalls>>

(***************************************************************************)
(* capture_multiple_traces: entry, one loop iteration, exit                *)
(***************************************************************************)
\* np.min / np.max / np.mean / np.std of one captured trace, printed after
\* the append: a zero-size trace makes np.min raise ValueError.
TraceStatsCalls(w) ==
    IF Len(w) = 0 THEN <<"np.min">>
    ELSE <<"np.min", "np.max", "np.mean", "np.std">>

TraceStatsRaise(w) == Len(w) = 0

\* self.traces = [] and the loop is entered.
CaptureMultipleBegin ==
    /\ pc \in {"api", "capture"}
    /\ ~inLoop
    /\ \E n \in (IF pc = "api" THEN 0..MaxNum ELSE {NumTraces}) : num' = n
    /\ traces' = <<>>
    /\ inLoop' = TRUE
    /\ idx' = 0
    /\ attempts' = 0
    /\ succ' = <<>>
    /\ steps' = IF pc = "api" THEN steps ELSE Append(steps, "capture")
    /\ Log("capture_multiple_traces", "running", <<>>, <<>>, "unread",
           NoCapture)
    /\ analysis' = NoAnalysis
    /\ UNCHANGED <<pc, scope, target, connected, image, reports, runResult,
                   disconnects, disCalls>>

\* One pass of `for i in range(num_traces)`.
CaptureIteration ==
    /\ inLoop
    /\ idx < num
    /\ \E o \in CaptureOutcomes :
         LET r == CaptureRealTraceResult(scope, target, InputData(idx), o)
             got == r.cap.ret = "trace"
             raises == got /\ TraceStatsRaise(r.cap.wave)
         IN /\ attempts' = attempts + 1
            /\ traces' = IF got THEN AppendTrace(traces, r.cap.wave) ELSE traces
            /\ succ' = IF got THEN Append(succ, r.cap.wave) ELSE succ
            /\ Log("capture_iteration",
                   IF raises THEN "raised" ELSE "running",
                   IF got THEN r.calls \o TraceStatsCalls(r.cap.wave)
                          ELSE r.calls,
                   r.sent, "unread", r.cap)
            /\ inLoop' = ~raises
            /\ idx' = IF raises THEN idx ELSE idx + 1
            /\ pc' = IF raises /\ pc # "api" THEN AfterRunDemo("raised") ELSE pc
            /\ runResult' = IF raises /\ pc # "api" THEN "raised" ELSE runResult
    /\ UNCHANGED <<scope, target, connected, image, num, steps, reports,
                   disconnects, disCalls, analysis>>

\* The loop is over: return len(self.traces) > 0.
CaptureMultipleEnd ==
    /\ inLoop
    /\ idx = num
    /\ inLoop' = FALSE
    /\ LET okv == Len(traces) > 0
       IN /\ Log("capture_multiple_traces", IF okv THEN "True" ELSE "False",
                 <<>>, <<>>, "unread", NoCapture)
          /\ IF pc = "api" THEN UNCHANGED <<pc, reports, runResult>>
             ELSE /\ pc' = RunDemoNext("capture", okv)
                  /\ reports' = Append(reports, okv)
                  /\ runResult' = RunDemoResult("capture", okv)
    /\ UNCHANGED <<scope, target, connected, traces, image, idx, num,
                   attempts, succ, steps, disconnects, disCalls, analysis>>

(***************************************************************************)
(* analyze_traces                                                          *)
(***************************************************************************)
AnalyzeTraces ==
    /\ pc \in {"api", "analyze"}
    /\ ~inLoop
    /\ IF IsEmptyTraceSet(traces)
       THEN /\ Log("analyze_traces", "False", <<>>, <<>>, "unread", NoCapture)
            /\ analysis' = NoAnalysis
            /\ Atomic("analyze", FALSE)
       ELSE IF AnalyzeRaises(traces)
       THEN /\ Log("analyze_traces", "raised", AnalyzeCalls(traces), <<>>,
                   "unread", NoCapture)
            /\ analysis' = NoAnalysis
            /\ AtomicRaise("analyze")
       ELSE /\ Log("analyze_traces", "analysis", AnalyzeCalls(traces), <<>>,
                   "unread", NoCapture)
            /\ analysis' = AnalysisResult(traces)
            \* `if not analysis`: the dict returned is never empty
            /\ Atomic("analyze", TRUE)
    /\ NoLoop
    /\ UNCHANGED <<scope, target, connected, traces, image, disconnects,
                   disCalls>>

(***************************************************************************)
(* generate_plot                                                           *)
(***************************************************************************)
\* The plotting library works, a drawing call raises, or savefig raises.
PlotOutcomes == {"ok", "draw", "save"}

\* With more than one trace generate_plot reduces np.array(self.traces)
\* along axis 0, which raises for a ragged list.
PlotStatsRaise(ts) == Len(ts) > 1 /\ ~Rectangular(ts)

PlotCalls(ts, o) ==
    IF o = "draw" THEN <<"plt.subplots">>
    ELSE IF PlotStatsRaise(ts) THEN <<"plt.subplots", "ax.plot", "np.array", "np.mean">>
    ELSE <<"plt.subplots", "ax.plot", "plt.savefig">>

GeneratePlot ==
    /\ pc \in {"api", "plot"}
    /\ ~inLoop
    /\ IF IsEmptyTraceSet(traces)
       THEN /\ Log("generate_plot", "False", <<>>, <<>>, "unread", NoCapture)
            /\ image' = image
            /\ Atomic("plot", FALSE)
       ELSE \E o \in PlotOutcomes :
              LET raises == o # "ok" \/ PlotStatsRaise(traces)
              IN /\ Log("generate_plot", IF raises THEN "raised" ELSE "True",
                        PlotCalls(traces, o), <<>>, "unread", NoCapture)
                 /\ image' = IF raises THEN image ELSE TRUE
                 /\ IF raises THEN AtomicRaise("plot") ELSE Atomic("plot", TRUE)
    /\ NoLoop
    /\ analysis' = NoAnalysis
    /\ UNCHANGED <<scope, target, connected, traces, disconnects, disCalls>>

(***************************************************************************)
(* disconnect                                                              *)
(***************************************************************************)
\* The dis() calls disconnect makes on handles sc, tg when scope.dis()
\* raises (sf) or returns: one try block around both calls.
DisconnectCalls(sc, tg, sf) ==
    (IF sc # "None" THEN <<"scope.dis">> ELSE <<>>)
    \o (IF tg # "None" /\ ~(sc # "None" /\ sf) THEN <<"target.dis">> ELSE <<>>)

Called(c, name) == \E k \in 1..Len(c) : c[k] = name

Disconnect ==
    /\ pc \in {"api", "finally"}
    /\ ~inLoop
    /\ \E sf \in BOOLEAN :
         LET c == DisconnectCalls(scope, target, sf)
         IN \* whether target.dis() raises changes nothing: it is caught and logged
            /\ Log("disconnect", "None", c, <<>>, "unread", NoCapture)
            /\ IF pc = "api" THEN UNCHANGED <<pc, disconnects, disCalls>>
               ELSE /\ pc' = "done"
                    /\ disconnects' = disconnects + 1
                    /\ disCalls' =
                         [scope |-> disCalls.scope
                                      + (IF Called(c, "scope.dis") THEN 1 ELSE 0),
                          target |-> disCalls.target
                                      + (IF Called(c, "target.dis") THEN 1 ELSE 0)]
    /\ NoLoop
    /\ analysis' = NoAnalysis
    /\ UNCHANGED <<scope, target, connected, traces, image, steps, reports,
                   runResult>>

(***************************************************************************)
(* Specifications                                                          *)
(***************************************************************************)
\* RealChipWhispererDemo.__init__, nothing called yet.
InitObject ==
    /\ scope = "None"
    /\ target = "None"
    /\ connected = FALSE
    /\ traces = <<>>
    /\ image = FALSE
    /\ op = "__init__"
    /\ ret = "None"
    /\ calls = <<>>
    /\ sent = <<>>
    /\ resp = "unread"
    /\ cap = NoCapture
    /\ inLoop = FALSE
    /\ idx = 0
    /\ num = 0
    /\ attempts = 0
    /\ succ = <<>>
    /\ steps = <<>>
    /\ reports = <<>>
    /\ runResult = "running"
    /\ disconnects = 0
    /\ disCalls = [scope |-> 0, target |-> 0]
    /\ analysis = NoAnalysis

\* main(): demo = RealChipWhispererDemo(); run_demo() is about to connect.
Init == InitObject /\ pc = "connect"

Next ==
    \/ Connect
    \/ TestTargetCommunication
    \/ CaptureMultipleBegin
    \/ CaptureIteration
    \/ CaptureMultipleEnd
    \/ AnalyzeTraces
    \/ GeneratePlot
    \/ Disconnect

Spec == Init /\ [][Next]_vars

\* One demo object; its methods are called in any order, any number of times.
InitAPI == InitObject /\ pc = "api"

NextAPI ==
    \/ Connect
    \/ TestTargetCommunication
    \/ CaptureRealTrace
    \/ CaptureMultipleBegin
    \/ CaptureIteration
    \/ CaptureMultipleEnd
    \/ AnalyzeTraces
    \/ GeneratePlot
    \/ Disconnect

SpecAPI == InitAPI /\ [][NextAPI]_vars

\* Every list of up to MaxTraces traces of one length in TraceLengths.
TraceSets ==
    UNION {[1..n -> [1..len -> Samples]] : n \in 0..MaxTraces, len \in TraceLengths}

\* analyze_traces on an object whose TraceSet is any of TraceSets.
InitAnalyze ==
    /\ pc = "api"
    /\ scope = "None"
    /\ target = "None"
    /\ connected = FALSE
    /\ traces \in TraceSets
    /\ image = FALSE
    /\ op = "__init__"
    /\ ret = "None"
    /\ calls = <<>>
    /\ sent = <<>>
    /\ resp = "unread"
    /\ cap = NoCapture
    /\ inLoop = FALSE
    /\ idx = 0
    /\ num = 0
    /\ attempts = 0
    /\ succ = <<>>
    /\ steps = <<>>
    /\ reports = <<>>
    /\ runResult = "running"
    /\ disconnects = 0
    /\ disCalls = [scope |-> 0, target |-> 0]
    /\ analysis = NoAnalysis

NextAnalyze == AnalyzeTraces

SpecAnalyze == InitAnalyze /\ [][NextAnalyze]_vars

(***************************************************************************)
(* Properties                                                              *)
(***************************************************************************)
IndexOf(seq, x) == CHOOSE k \in 1..Len(seq) : seq[k] = x

IsDeviceCall(x) == \E k \in 1..Len(CaptureOrder) : CaptureOrder[k] = x

DeviceCalls(c) == SelectSeq(c, IsDeviceCall)

AllTrue(r) == \A k \in 1..Len(r) : r[k]

\* C1: in every execution of main(), disconnect() is invoked exactly once,
\* and only after run_demo has ended, whatever way run_demo ended (connect
\* failed, a later step failed, all succeeded, an exception was raised);
\* main() does not stop before it has done so.
DisconnectOnceAfterRun ==
    /\ disconnects <= 1
    /\ (disconnects = 1 => runResult \in {"True", "False", "raised"})
    /\ (pc = "done" => disconnects = 1)
    /\ (pc # "done" => ENABLED Next)

\* main() has ended after run_demo raised.
DisconnectOnceAfterRunWitness ==
    pc = "done" /\ runResult = "raised" /\ disconnects = 1

\* C2: no exception propagates out of run_demo (it returns a boolean).
NoExceptionOutOfRunDemo == runResult # "raised"

\* C3: run_demo starts its steps in the order connect, probe, capture,
\* analyze, plot, each at most once; a step starts only if all earlier ones
\* reported success; the first failure report makes run_demo return False
\* with no later step started; it returns True iff all five reported success.
RunDemoOrder ==
    /\ IsPrefix(steps, RunSteps)
    /\ Len(reports) <= Len(steps)
    /\ Len(steps) <= Len(reports) + 1
    /\ \A k \in 1..(Len(steps) - 1) : reports[k]
    /\ (runResult = "False") <=> (Len(reports) > 0 /\ ~reports[Len(reports)])
    /\ (runResult = "False" => Len(steps) = Len(reports))
    /\ (runResult = "True") <=> (Len(reports) = Len(RunSteps) /\ AllTrue(reports))

\* run_demo returned False because capture_multiple_traces reported failure.
RunDemoOrderWitness ==
    /\ runResult = "False"
    /\ steps = <<"connect", "probe", "capture">>
    /\ reports = <<TRUE, TRUE, FALSE>>
    /\ pc = "done"

\* C4: when main() has ended, every handle connect acquired has had its
\* dis() invoked once.
EveryHandleReleasedOnce ==
    pc = "done" =>
        /\ (scope # "None" => disCalls.scope = 1)
        /\ (target # "None" => disCalls.target = 1)

\* capture_multiple_traces has ended, by returning or by raising.
CaptureMultipleEnded ==
    \/ op = "capture_multiple_traces" /\ ret \in {"True", "False"}
    \/ op = "capture_iteration" /\ ret = "raised"

\* C5: when capture_multiple_traces(n) has ended it has made exactly n
\* capture attempts, the TraceSet holds the waveforms of the successful
\* ones in attempt order, and it reported success iff one succeeded.
CaptureMultipleCounts ==
    CaptureMultipleEnded =>
        /\ attempts = num
        /\ traces = succ
        /\ ret \in {"True", "False"}
        /\ (ret = "True") <=> (Len(succ) > 0)

\* C6 as stated: every step leaves the old TraceSet a prefix of the new one.
TraceSetOnlyGrows == [][IsPrefix(traces, traces')]_vars

\* C6 amended: a step changes the TraceSet only by appending the trace just
\* captured in a loop pass of capture_multiple_traces, or by replacing it
\* with the empty list when capture_multiple_traces starts.
TraceSetAppendOrReset ==
    [][\/ traces' = traces
       \/ /\ op' = "capture_iteration"
          /\ cap'.ret = "trace"
          /\ traces' = Append(traces, cap'.wave)
       \/ /\ op' = "capture_multiple_traces"
          /\ ret' = "running"
          /\ traces' = <<>>]_vars

\* A loop pass has appended a second, different trace.
TraceSetAppendOrResetWitness ==
    /\ op = "capture_iteration"
    /\ Len(traces) = 2
    /\ traces[1] # traces[2]
    /\ cap.wave = traces[2]

\* C7: with an empty TraceSet analyze_traces and generate_plot return False
\* without raising, call no library, write no image and leave the TraceSet,
\* scope, target and connected as they were.
EmptyTraceSetFails ==
    [][(op' \in {"analyze_traces", "generate_plot"} /\ Len(traces) = 0) =>
          /\ ret' = "False"
          /\ calls' = <<>>
          /\ image' = image
          /\ traces' = traces
          /\ scope' = scope
          /\ target' = target
          /\ connected' = connected]_vars

\* generate_plot has refused an empty TraceSet on a connected object.
EmptyTraceSetFailsWitness ==
    /\ op = "generate_plot"
    /\ ret = "False"
    /\ Len(traces) = 0
    /\ connected

\* The TraceSet has at least two traces, all samples equal to one baseline
\* except the sample at (0-based) index k of one trace.
SingleDeviation(ts, k) ==
    /\ Len(ts) >= 2
    /\ k < Len(ts[1])
    /\ \E a \in 1..Len(ts), b \in Samples :
         /\ ts[a][k + 1] # b
         /\ \A c \in 1..Len(ts), j \in 1..Len(ts[1]) :
              (c # a \/ j # k + 1) => ts[c][j] = b

\* C8 as stated: for every trace length the index of the single deviating
\* sample is an interesting point.
DeviationIsInteresting ==
    (op = "analyze_traces" /\ Len(traces) >= 2) =>
        \A k \in 0..(Len(traces[1]) - 1) :
            SingleDeviation(traces, k) =>
                /\ ret = "analysis"
                /\ analysis.interesting_points >= 1
                /\ k \in analysis.points

\* C8 amended: the same for every trace length of at least 2.
DeviationIsInterestingFromTwo ==
    (op = "analyze_traces" /\ Len(traces) >= 2 /\ Len(traces[1]) >= 2) =>
        \A k \in 0..(Len(traces[1]) - 1) :
            SingleDeviation(traces, k) =>
                /\ ret = "analysis"
                /\ analysis.interesting_points >= 1
                /\ k \in analysis.points

\* Traces of three samples with the deviation at index 1 have been analysed.
DeviationIsInterestingWitness ==
    /\ op = "analyze_traces"
    /\ Len(traces) >= 2
    /\ Len(traces[1]) = 3
    /\ SingleDeviation(traces, 1)
    /\ analysis.points = {1}

\* C9: test_target_communication flushes, writes 'p' with the 16-byte
\* payload, sleeps, reads once, in that order; it returns True iff the read
\* returned a non-empty response, and False (never raising) when the
\* response is empty or missing or when flush, write or read raised.
ProbeContract ==
    op = "test_target_communication" =>
        /\ ret \in {"True", "False"}
        /\ IsPrefix(calls, ProbeOrder)
        /\ Len(sent) = (IF Len(calls) >= 2 THEN 1 ELSE 0)
        /\ \A k \in 1..Len(sent) :
             /\ sent[k].cmd = "p"
             /\ Len(sent[k].data) = PayloadLen
             /\ \A b \in 1..PayloadLen : sent[k].data[b] = ProbeByte
        /\ (resp # "unread" => calls = ProbeOrder)
        /\ (ret = "True") <=> (resp = "data")

\* The probe read an empty response.
ProbeContractWitness ==
    /\ op = "test_target_communication"
    /\ resp = "empty"
    /\ ret = "False"
    /\ calls = ProbeOrder

\* C10: a capture_real_trace call, made directly or by a loop pass, invokes
\* arm, write (command 'p'), capture, get_last_trace in this order; when one
\* of them fails no later one is invoked, the call returns None without
\* raising and the TraceSet is left alone; otherwise it returns what
\* get_last_trace returned.
CaptureContract ==
    [][op' \in {"capture_real_trace", "capture_iteration"} =>
          LET dev == DeviceCalls(calls')
          IN /\ IsPrefix(dev, CaptureOrder)
             /\ cap'.ret \in {"trace", "None"}
             /\ \A k \in 1..Len(sent') : sent'[k].cmd = "p"
             /\ Len(sent') = (IF Len(dev) >= 2 THEN 1 ELSE 0)
             /\ (IsDeviceCall(cap'.failed) =>
                   /\ dev = SubSeq(CaptureOrder, 1, IndexOf(CaptureOrder, cap'.failed))
                   /\ cap'.ret = "None"
                   /\ traces' = traces)
             /\ (cap'.failed = "attr" =>
                   /\ Len(dev) < Len(CaptureOrder)
                   /\ cap'.ret = "None"
                   /\ traces' = traces)
             /\ (cap'.failed = "none" => dev = CaptureOrder)
             /\ (cap'.ret = "trace" => cap'.failed = "none")
             /\ (op' = "capture_real_trace" =>
                   ret' = cap'.ret /\ traces' = traces)]_vars

\* A loop pass whose scope.capture() raised.
CaptureContractWitness ==
    /\ op = "capture_iteration"
    /\ cap.failed = "scope.capture"
    /\ calls = SubSeq(CaptureOrder, 1, 3)
    /\ cap.ret = "None"

====
